---- MODULE Spec2Model ----
(***************************************************************************)
(* Model of restuss' NessusClient (src/client.go): the retry loop of       *)
(* performCallAndReadResponse and the endpoint methods built on it, the    *)
(* cursor pagination of GetFindingsByAssetName included.                   *)
(*                                                                         *)
(* One behaviour is one call of one endpoint method.  The transport        *)
(* (http.Client.Do), the server and the caller's context are the           *)
(* environment: every Do ends either in an error or in a response whose    *)
(* status, retry-after header and body the environment chooses.            *)
(*                                                                         *)
(* Durations are counted in milliseconds (time.Duration counts             *)
(* nanoseconds; no duration of the program needs a finer unit than the     *)
(* jitter, whose resolution is JitterSteps).  Byte strings and header      *)
(* values are sequences of one-character strings.                          *)
(***************************************************************************)
EXTENDS Integers, Sequences, FiniteSets, TLC

(***************************************************************************)
(* Bounds of the model.                                                    *)
(***************************************************************************)
\* The server hands out at most this many pages to one aggregation.
MaxPages == 2
\* rand.Float64() is drawn from {0/JitterSteps, ..., (JitterSteps-1)/JitterSteps}.
JitterSteps == 3

(***************************************************************************)
(* Program constants.                                                      *)
(***************************************************************************)
Millisecond == 1
Second == 1000
BackoffMin == 100 * Millisecond
BackoffMax == 60 * Second
\* Factor: 1.5, kept as the fraction FactorNum / FactorDen.
FactorNum == 3
FactorDen == 2
\* for i := 0; i < 10; i++
MaxAttempts == 10
StatusTooManyRequests == 429
\* if res.StatusCode >= 300
FirstNonSuccess == 300

(***************************************************************************)
(* Inputs.                                                                 *)
(***************************************************************************)
\* The endpoint methods modelled, with what they hand to performCallAndReadResponse.
SimpleOps ==
    {"StopScanContext", "GetScansContext", "CreateScanContext", "GetScanTemplatesContext"}
Ops == SimpleOps \cup {"GetAssetByName", "GetFindingsByAssetName"}

\* http.NewRequest(..., nil) for the first two, bytes.NewBuffer(jsonBody) for the others.
HasBody(o) == o \in {"CreateScanContext", "GetAssetByName", "GetFindingsByAssetName"}
\* performCallAndReadResponse(req, nil) for StopScanContext, a pointer otherwise.
HasTarget(o) == o # "StopScanContext"

\* json.Marshal(scan) of the scans a caller may pass to CreateScanContext.
ScanBodies == { <<"{", "s", "1", "}">>, <<"{", "s", "2", "}">> }
\* Asset names a caller may pass to GetFindingsByAssetName.
AssetNames == { "h" }

\* Status codes the server answers with.
Statuses == {200, 299, 300, 429, 500}
\* Values of the retry-after header; <<>> is the absent (or empty) header.
RetryAfterValues ==
    { <<>>, <<"2">>, <<"1", "2">>, <<"-", "2">>, <<"+", "2">>, <<"x">>, <<"2", "x">>, <<"-">> }
\* Causes of a transport failure.
ConnRefused == "connection refused"
CtxCanceled == "context canceled"

\* Findings a page may carry, and the cursors a page may name.
Items == {"A", "B"}
PageFindings == { <<>>, <<"A">>, <<"A", "B">> }
NoCursor == <<>>
Cursors == { NoCursor, <<"c", "1">>, <<"\"">> }
\* Values a non-paged endpoint's response may carry.
Values == {"v1", "v2"}
\* The "assets" lists a response to the search of GetAssetByName may carry.
AssetLists == { <<>>, <<"a1">>, <<"a2">>, <<"a1", "a2">> }

(***************************************************************************)
(* Response bodies.  A body is either a JSON document, of which the model  *)
(* keeps the fields the endpoints decode, or bytes that are no JSON.       *)
(***************************************************************************)
Doc(v, f, n) == [valid |-> TRUE, val |-> v, findings |-> f, next |-> n]
Garbage == [valid |-> FALSE, val |-> "", findings |-> <<>>, next |-> NoCursor]
NoBody == [valid |-> FALSE, val |-> "nil", findings |-> <<>>, next |-> NoCursor]

\* The bodies the server may send to endpoint o.
Bodies(o) ==
    IF o = "GetFindingsByAssetName"
    THEN {Garbage} \cup { Doc("", f, n) : f \in PageFindings, n \in Cursors }
    ELSE IF o = "GetAssetByName"
    THEN {Garbage} \cup { Doc("", as, NoCursor) : as \in AssetLists }
    ELSE {Garbage} \cup { Doc(v, <<>>, NoCursor) : v \in Values }

\* A Go slice: nil, or a sequence of items.
NilSlice == [isNil |-> TRUE, items |-> <<>>]
Slice(s) == [isNil |-> FALSE, items |-> s]
\* An append that puts the new items first.
AppendAll_Prepend(s, t) == IF s.isNil /\ t = <<>> THEN NilSlice ELSE Slice(t \o s.items)

\* append(s, t...): appending nothing to a nil slice leaves it nil.
AppendAll(s, t) == IF s.isNil /\ t = <<>> THEN NilSlice ELSE Slice(s.items \o t)

\* An error is the sequence of the pieces its message is concatenated from; nil is <<>>.
NoError == <<>>
ErrFailedCall(cause) == <<"Failed call: ", cause>>
ErrRetryLimit == <<"Retry limit exceeded">>
ErrDecode == <<"Failed to read the response: ", "json">>

\* No response (res == nil).
NoRes == [status |-> 0, header |-> <<>>, body |-> NoBody, closes |-> 0]

VARIABLES
    \* the endpoint method
    op,             \* the method called
    assetName,      \* the name argument of GetAssetByName and GetFindingsByAssetName
    epc,            \* "init", "call" (inside performCallAndReadResponse), "done"
    ctxDone,        \* the caller's context is cancelled
    findings,       \* GetFindingsByAssetName: var findings []Finding
    fetches,        \* calls of performCallAndReadResponse made by the method
    pagesArrived,   \* history: the pages the server delivered, in order of arrival
    ret,            \* what the method returned: [result, err]
    earlierRetries, \* history: an earlier page fetch of the method had failed attempts
    \* performCallAndReadResponse
    pc,             \* "idle", "send" (about to call Do), "sleep", "ret" (returned)
    i,              \* the loop counter
    attempt,        \* b.attempt of the backoff.Backoff
    reqBodyBytes,   \* the bytes read from req.Body before the loop
    reqBody,        \* what is still unread in req.Body
    res,            \* the last response, NoRes when nil
    success,
    waitTime,
    err,            \* the error returned
    target,         \* what was decoded into data
    authCalls,      \* calls of c.auth.AddAuthHeaders in this call
    rngSeedWrites,  \* writes of math/rand's global seed
    \* history of the current performCallAndReadResponse
    sends,          \* calls of c.httpClient.Do
    sleeps,         \* calls of time.Sleep
    nFail,          \* responses with status >= 300
    nOk,            \* responses with status < 300
    nErr,           \* Do calls that returned an error
    presented,      \* the request body bytes the transport found at the last Do
    cancelledInSleep, \* the context was cancelled while the call slept
    sendsAfterCancel  \* Do calls made after such a cancellation

evars == <<op, assetName, epc, ctxDone, findings, fetches, pagesArrived, ret, earlierRetries>>
xvars == <<pc, i, attempt, reqBodyBytes, reqBody, res, success, waitTime, err, target,
           authCalls, rngSeedWrites>>
hvars == <<sends, sleeps, nFail, nOk, nErr, presented, cancelledInSleep, sendsAfterCancel>>
vars == <<evars, xvars, hvars>>

(***************************************************************************)
(* Pure functions.                                                         *)
(***************************************************************************)
Digits == <<"0", "1", "2", "3", "4", "5", "6", "7", "8", "9">>
IsDigit(c) == \E d \in 1..Len(Digits) : Digits[d] = c
DigitVal(c) == (CHOOSE d \in 1..Len(Digits) : Digits[d] = c) - 1

RECURSIVE ParseDigits(_, _)
\* n = n*10 + int(ch) over the characters of s, starting from n = acc.
ParseDigits(s, acc) ==
    IF s = <<>> THEN acc ELSE ParseDigits(Tail(s), acc * 10 + DigitVal(Head(s)))

\* strconv.Atoi on a string of fewer than 19 characters: an optional sign, then
\* at least one character, all of them decimal digits.
Atoi(s) ==
    LET signed == s # <<>> /\ Head(s) \in {"-", "+"}
        body == IF signed THEN Tail(s) ELSE s
    IN  IF body = <<>> \/ \E k \in 1..Len(body) : ~IsDigit(body[k])
        THEN [ok |-> FALSE, n |-> 0]
        ELSE [ok |-> TRUE,
              n |-> IF Head(s) = "-" THEN 0 - ParseDigits(body, 0) ELSE ParseDigits(body, 0)]

RECURSIVE Pow(_, _)
Pow(b, e) == IF e = 0 THEN 1 ELSE b * Pow(b, e - 1)

\* A jitter that scales the whole capped duration, rand.Float64()*durf, and
\* does not keep the minimum.
ForAttempt_FullJitter(a, r) ==
    LET durf == (BackoffMin * Pow(FactorNum, a)) \div Pow(FactorDen, a)
        jit  == (r * durf) \div JitterSteps
    IN  IF jit > BackoffMax THEN BackoffMax ELSE jit

\* Backoff.ForAttempt of github.com/jpillora/backoff with Min, Max, Factor and
\* Jitter as performCallAndReadResponse sets them; r is the numerator of
\* rand.Float64() over JitterSteps.
\*   durf := minf * math.Pow(factor, attempt)
\*   if b.Jitter { durf = rand.Float64()*(durf-minf) + minf }
\*   dur := time.Duration(durf); if dur < min { return min }; if dur > max { return max }
ForAttempt(a, r) ==
    LET minf == BackoffMin
        durf == (minf * Pow(FactorNum, a)) \div Pow(FactorDen, a)
        jit  == (r * (durf - minf)) \div JitterSteps + minf
    IN  IF BackoffMin >= BackoffMax THEN BackoffMax
        ELSE IF jit < BackoffMin THEN BackoffMin
        ELSE IF jit > BackoffMax THEN BackoffMax
        ELSE jit

\* A wait that takes the header's seconds whatever the status.
WaitFor_AnyStatus(st, h, d) ==
    IF h # <<>> /\ Atoi(h).ok
    THEN Atoi(h).n * Second
    ELSE d

\* A wait that never looks at the header.
WaitFor_BackoffOnly(st, h, d) == d

\* The wait after a response with status st and retry-after header h, when
\* b.Duration() returned d: waitTime := b.Duration(), replaced by the header's
\* seconds only for a 429 whose header is non-empty and parses.
WaitFor(st, h, d) ==
    IF st = StatusTooManyRequests /\ h # <<>> /\ Atoi(h).ok
    THEN Atoi(h).n * Second
    ELSE d

\* A classification that also retries the last success status.
IsFailure_FromSuccess(st) == st >= FirstNonSuccess - 1

\* res.StatusCode >= 300
IsFailure(st) == st >= FirstNonSuccess

\* A loop that runs once more.
LoopContinues_OneMore(k) == k <= MaxAttempts

\* for ...; i < 10; ...
LoopContinues(k) == k < MaxAttempts

\* A decoding whose error is dropped.
DecodeErr_Ignored(body) == NoError

\* json.NewDecoder(res.Body).Decode(&data): an error for bytes that are no JSON.
DecodeErr(body) == IF body.valid THEN NoError ELSE ErrDecode
\* The fields the decoding fills in.
Decoded(body) == [val |-> body.val, findings |-> body.findings, next |-> body.next]
NoTarget == [val |-> "", findings |-> <<>>, next |-> NoCursor]

\* json.Marshal(payload) of GetFindingsByAssetName: the filter on asset.name.
FilterPayload(name) == <<"{", "filter", ":", name, "}">>
\* json.Marshal(payload) of GetAssetByName: the filter on name.
AssetPayload(name) == <<"{", "filter", ":", "name", "=", name, "}">>
\* fmt.Sprintf("{\"next\":\"%s\"}", next)
JsonNext(n) == <<"{", "\"", "next", "\"", ":", "\"">> \o n \o <<"\"", "}">>

\* The result a non-paged endpoint returns on success.
SimpleResult(o, t) == IF HasTarget(o) THEN Slice(<<t.val>>) ELSE NilSlice

(***************************************************************************)
(* The state after construction: a client, and a caller about to call one  *)
(* of its methods.                                                         *)
(***************************************************************************)
Init ==
    /\ op \in Ops
    /\ assetName \in AssetNames
    /\ epc = "init"
    /\ earlierRetries = FALSE
    /\ ctxDone = FALSE
    /\ findings = NilSlice
    /\ fetches = 0
    /\ pagesArrived = <<>>
    /\ ret = [result |-> NilSlice, err |-> NoError]
    /\ pc = "idle"
    /\ i = 0
    /\ attempt = 0
    /\ reqBodyBytes = <<>>
    /\ reqBody = <<>>
    /\ res = NoRes
    /\ success = FALSE
    /\ waitTime = 0
    /\ err = NoError
    /\ target = NoTarget
    /\ authCalls = 0
    /\ rngSeedWrites = 0
    /\ sends = 0
    /\ sleeps = 0
    /\ nFail = 0
    /\ nOk = 0
    /\ nErr = 0
    /\ presented = <<>>
    /\ cancelledInSleep = FALSE
    /\ sendsAfterCancel = 0

(***************************************************************************)
(* performCallAndReadResponse.                                             *)
(***************************************************************************)
\* An entry that forgets c.auth.AddAuthHeaders(req).
EnterPerformCall_NoAuth(body) ==
    /\ pc' = "send"
    /\ i' = 0
    /\ attempt' = 0
    /\ rngSeedWrites' = rngSeedWrites + 1
    /\ reqBodyBytes' = body
    /\ reqBody' = body
    /\ authCalls' = 0
    /\ success' = FALSE
    /\ res' = NoRes
    /\ waitTime' = 0
    /\ err' = NoError
    /\ target' = NoTarget
    /\ sends' = 0
    /\ sleeps' = 0
    /\ nFail' = 0
    /\ nOk' = 0
    /\ nErr' = 0
    /\ presented' = <<>>
    /\ UNCHANGED <<cancelledInSleep, sendsAfterCancel>>

\* An entry that goes on with the Backoff of the call before.
EnterPerformCall_SharedBackoff(body) ==
    /\ pc' = "send"
    /\ i' = 0
    /\ attempt' = attempt
    /\ rngSeedWrites' = rngSeedWrites + 1
    /\ reqBodyBytes' = body
    /\ reqBody' = body
    /\ authCalls' = 1
    /\ success' = FALSE
    /\ res' = NoRes
    /\ waitTime' = 0
    /\ err' = NoError
    /\ target' = NoTarget
    /\ sends' = 0
    /\ sleeps' = 0
    /\ nFail' = 0
    /\ nOk' = 0
    /\ nErr' = 0
    /\ presented' = <<>>
    /\ UNCHANGED <<cancelledInSleep, sendsAfterCancel>>

\* Lines 450-479, from the entry to the first test of the loop: a new Backoff,
\* rand.Seed, the request body read into reqBodyBytes and put back once as a
\* buffer over those bytes, AddAuthHeaders, success := false.  Every method
\* builds its body from an in-memory buffer, whose ioutil.ReadAll cannot fail.
EnterPerformCall(body) ==
    /\ pc' = "send"
    /\ i' = 0
    /\ attempt' = 0
    /\ rngSeedWrites' = rngSeedWrites + 1
    /\ reqBodyBytes' = body
    /\ reqBody' = body
    /\ authCalls' = 1
    /\ success' = FALSE
    /\ res' = NoRes
    /\ waitTime' = 0
    /\ err' = NoError
    /\ target' = NoTarget
    /\ sends' = 0
    /\ sleeps' = 0
    /\ nFail' = 0
    /\ nOk' = 0
    /\ nErr' = 0
    /\ presented' = <<>>
    /\ UNCHANGED <<cancelledInSleep, sendsAfterCancel>>

\* What every call of c.httpClient.Do(req) does to the history: the transport
\* is handed req.Body as it is now.
DoCalled ==
    /\ sends' = sends + 1
    /\ presented' = reqBody
    /\ sendsAfterCancel' = IF cancelledInSleep THEN sendsAfterCancel + 1 ELSE sendsAfterCancel
    /\ UNCHANGED cancelledInSleep

\* The history's count of the responses, by their status.
Responded(st) ==
    /\ nFail' = IF st >= 300 THEN nFail + 1 ELSE nFail
    /\ nOk' = IF st < 300 THEN nOk + 1 ELSE nOk
    /\ UNCHANGED nErr

\* A failed Do that is treated like a failed attempt: the loop goes on.
DoFails_Retried ==
    /\ pc = "send"
    /\ DoCalled
    /\ nErr' = nErr + 1
    /\ res' = NoRes
    /\ pc' = "sleep"
    /\ UNCHANGED <<i, attempt, reqBodyBytes, reqBody, success, waitTime, err, target,
                   authCalls, rngSeedWrites, sleeps, nFail, nOk>>
    /\ UNCHANGED evars

\* Do returns an error (lines 481-484): the call returns at once.  With the
\* context already cancelled Do can do nothing else.
DoFails ==
    /\ pc = "send"
    /\ DoCalled
    /\ nErr' = nErr + 1
    /\ res' = NoRes
    /\ err' = ErrFailedCall(IF ctxDone THEN CtxCanceled ELSE ConnRefused)
    /\ pc' = "ret"
    /\ UNCHANGED <<i, attempt, reqBodyBytes, reqBody, success, waitTime, target,
                   authCalls, rngSeedWrites, sleeps, nFail, nOk>>
    /\ UNCHANGED evars

\* A retry that asks the Backoff for a duration only when the wait is not
\* taken from the retry-after header.
DoRetryable_HeaderSkipsBackoff ==
    /\ pc = "send"
    /\ ~ctxDone
    /\ \E st \in Statuses, h \in RetryAfterValues, r \in 0..(JitterSteps - 1) :
        /\ IsFailure(st)
        /\ Responded(st)
        /\ res' = [status |-> st, header |-> h, body |-> NoBody, closes |-> 1]
        /\ attempt' = IF st = StatusTooManyRequests /\ h # <<>> /\ Atoi(h).ok
                      THEN attempt ELSE attempt + 1
        /\ waitTime' = WaitFor(st, h, ForAttempt(attempt, r))
    /\ DoCalled
    /\ reqBody' = <<>>
    /\ sleeps' = sleeps + 1
    /\ pc' = "sleep"
    /\ UNCHANGED <<i, reqBodyBytes, success, err, target, authCalls, rngSeedWrites>>
    /\ UNCHANGED evars

\* A retry that does not wait after the last attempt of the loop.
DoRetryable_NoLastSleep ==
    /\ pc = "send"
    /\ ~ctxDone
    /\ \E st \in Statuses, h \in RetryAfterValues, r \in 0..(JitterSteps - 1) :
        /\ IsFailure(st)
        /\ Responded(st)
        /\ res' = [status |-> st, header |-> h, body |-> NoBody,
                   closes |-> IF LoopContinues(i + 1) THEN 1 ELSE 2]
        /\ attempt' = attempt + 1
        /\ waitTime' = WaitFor(st, h, ForAttempt(attempt, r))
    /\ DoCalled
    /\ reqBody' = <<>>
    /\ IF LoopContinues(i + 1)
       THEN /\ sleeps' = sleeps + 1
            /\ pc' = "sleep"
            /\ UNCHANGED <<i, err>>
       ELSE /\ sleeps' = sleeps
            /\ pc' = "ret"
            /\ i' = i + 1
            /\ err' = ErrRetryLimit
    /\ UNCHANGED <<reqBodyBytes, success, target, authCalls, rngSeedWrites>>
    /\ UNCHANGED evars

\* A retry without the wait: the loop goes on at once.
DoRetryable_NoSleep ==
    /\ pc = "send"
    /\ ~ctxDone
    /\ \E st \in Statuses, h \in RetryAfterValues, r \in 0..(JitterSteps - 1) :
        /\ IsFailure(st)
        /\ Responded(st)
        /\ res' = [status |-> st, header |-> h, body |-> NoBody, closes |-> 1]
        /\ attempt' = attempt + 1
        /\ waitTime' = WaitFor(st, h, ForAttempt(attempt, r))
    /\ DoCalled
    /\ reqBody' = <<>>
    /\ i' = i + 1
    /\ pc' = IF LoopContinues(i + 1) THEN "send" ELSE "sleep"
    /\ UNCHANGED <<reqBodyBytes, success, err, target, authCalls, rngSeedWrites, sleeps>>
    /\ UNCHANGED evars

\* Do returns a response with status >= 300 (lines 491-530): the response body
\* is read and closed, waitTime := b.Duration(), replaced by retry-after for a
\* 429, and the call sleeps.  The transport has read the request body to its end.
DoRetryable ==
    /\ pc = "send"
    /\ ~ctxDone
    /\ \E st \in Statuses, h \in RetryAfterValues, r \in 0..(JitterSteps - 1) :
        /\ IsFailure(st)
        /\ Responded(st)
        /\ res' = [status |-> st, header |-> h, body |-> NoBody, closes |-> 1]
        /\ attempt' = attempt + 1
        /\ waitTime' = WaitFor(st, h, ForAttempt(attempt, r))
    /\ DoCalled
    /\ reqBody' = <<>>
    /\ sleeps' = sleeps + 1
    /\ pc' = "sleep"
    /\ UNCHANGED <<i, reqBodyBytes, success, err, target, authCalls, rngSeedWrites>>
    /\ UNCHANGED evars

\* Do returns a response with status < 300 (lines 533-559): success, the loop
\* is left, the body is decoded into data when data is not nil, and the
\* deferred function closes the body.
DoSucceeds ==
    /\ pc = "send"
    /\ ~ctxDone
    /\ \E st \in Statuses, body \in Bodies(op) :
        /\ ~IsFailure(st)
        /\ Responded(st)
        /\ (body.next # NoCursor) => fetches < MaxPages
        /\ res' = [status |-> st, header |-> <<>>, body |-> body, closes |-> 1]
        /\ err' = IF HasTarget(op) THEN DecodeErr(body) ELSE NoError
        /\ target' = IF HasTarget(op) /\ DecodeErr(body) = NoError
                     THEN Decoded(body) ELSE NoTarget
    /\ DoCalled
    /\ reqBody' = <<>>
    /\ success' = TRUE
    /\ pc' = "ret"
    /\ UNCHANGED <<i, attempt, reqBodyBytes, waitTime, authCalls, rngSeedWrites, sleeps>>
    /\ UNCHANGED evars

\* time.Sleep returns (lines 529-530, 480, 537-548): continue, i++, and either
\* the next attempt or, with the loop exhausted, the deferred close of the
\* last response and the "Retry limit exceeded" error.
SleepReturns ==
    /\ pc = "sleep"
    /\ i' = i + 1
    /\ IF LoopContinues(i + 1)
       THEN /\ pc' = "send"
            /\ UNCHANGED <<res, err>>
       ELSE /\ pc' = "ret"
            /\ res' = [res EXCEPT !.closes = @ + 1]
            /\ err' = ErrRetryLimit
    /\ UNCHANGED <<attempt, reqBodyBytes, reqBody, success, waitTime, target,
                   authCalls, rngSeedWrites>>
    /\ UNCHANGED hvars
    /\ UNCHANGED evars

\* The caller cancels the context it passed to the method.
Cancel ==
    /\ epc = "call"
    /\ pc \in {"send", "sleep"}
    /\ ~ctxDone
    /\ ctxDone' = TRUE
    /\ cancelledInSleep' = (pc = "sleep")
    /\ UNCHANGED <<op, assetName, earlierRetries, epc, findings, fetches, pagesArrived, ret>>
    /\ UNCHANGED xvars
    /\ UNCHANGED <<sends, sleeps, nFail, nOk, nErr, presented, sendsAfterCancel>>

(***************************************************************************)
(* The endpoint methods.                                                   *)
(***************************************************************************)
\* A method builds its request and calls performCallAndReadResponse with it.
CallWith(o, body) ==
    /\ epc = "init"
    /\ op = o
    /\ epc' = "call"
    /\ fetches' = 1
    /\ EnterPerformCall(body)
    /\ UNCHANGED <<op, assetName, earlierRetries, ctxDone, findings, pagesArrived, ret>>

\* A return that hands out whatever the target holds next to the error.
ReturnFrom_Partial(o) ==
    /\ epc = "call"
    /\ op = o
    /\ pc = "ret"
    /\ ret' = [result |-> SimpleResult(o, target), err |-> err]
    /\ epc' = "done"
    /\ pc' = "idle"
    /\ UNCHANGED <<op, assetName, earlierRetries, ctxDone, findings, fetches, pagesArrived>>
    /\ UNCHANGED <<i, attempt, reqBodyBytes, reqBody, res, success, waitTime, err, target,
                   authCalls, rngSeedWrites>>
    /\ UNCHANGED hvars

\* A method that makes one call returns (nil, err) on an error and its
\* decoded result otherwise.
ReturnFrom(o) ==
    /\ epc = "call"
    /\ op = o
    /\ pc = "ret"
    /\ ret' = IF err # NoError
              THEN [result |-> NilSlice, err |-> err]
              ELSE [result |-> SimpleResult(o, target), err |-> NoError]
    /\ epc' = "done"
    /\ pc' = "idle"
    /\ UNCHANGED <<op, assetName, earlierRetries, ctxDone, findings, fetches, pagesArrived>>
    /\ UNCHANGED <<i, attempt, reqBodyBytes, reqBody, res, success, waitTime, err, target,
                   authCalls, rngSeedWrites>>
    /\ UNCHANGED hvars

StopScanContext_Call == CallWith("StopScanContext", <<>>)
StopScanContext_Return == ReturnFrom("StopScanContext")

GetScansContext_Call == CallWith("GetScansContext", <<>>)
GetScansContext_Return == ReturnFrom("GetScansContext")

CreateScanContext_Call == \E body \in ScanBodies : CallWith("CreateScanContext", body)
CreateScanContext_Return == ReturnFrom("CreateScanContext")

GetScanTemplatesContext_Call == CallWith("GetScanTemplatesContext", <<>>)

\* GetScanTemplatesContext wraps the error: "Call failed: " + err.Error().
GetScanTemplatesContext_Return ==
    /\ epc = "call"
    /\ op = "GetScanTemplatesContext"
    /\ pc = "ret"
    /\ ret' = IF err # NoError
              THEN [result |-> NilSlice, err |-> <<"Call failed: ">> \o err]
              ELSE [result |-> SimpleResult(op, target), err |-> NoError]
    /\ epc' = "done"
    /\ pc' = "idle"
    /\ UNCHANGED <<op, assetName, earlierRetries, ctxDone, findings, fetches, pagesArrived>>
    /\ UNCHANGED <<i, attempt, reqBodyBytes, reqBody, res, success, waitTime, err, target,
                   authCalls, rngSeedWrites>>
    /\ UNCHANGED hvars

\* GetAssetByName up to its performCallAndReadResponse (lines 310-343).
GetAssetByName_Call ==
    \E name \in AssetNames :
        name = assetName /\ CallWith("GetAssetByName", AssetPayload(name))

\* A return that takes the first asset of any non-empty list.
AssetResult_First(e, as) ==
    IF e # NoError THEN [result |-> NilSlice, err |-> e]
    ELSE IF Len(as) = 0
    THEN [result |-> NilSlice, err |-> <<"No assets matching name: ", assetName>>]
    ELSE [result |-> Slice(<<as[1]>>), err |-> NoError]

\* What GetAssetByName returns once the call has returned with error e and
\* the decoded result.Assets as (lines 344-355).
AssetResult(e, as) ==
    IF e # NoError THEN [result |-> NilSlice, err |-> e]
    ELSE IF Len(as) = 0
    THEN [result |-> NilSlice, err |-> <<"No assets matching name: ", assetName>>]
    ELSE IF Len(as) > 1
    THEN [result |-> NilSlice,
          err |-> <<"More than one asset matching name: ", assetName, ToString(Len(as))>>]
    ELSE [result |-> Slice(<<as[1]>>), err |-> NoError]

GetAssetByName_Return ==
    /\ epc = "call"
    /\ op = "GetAssetByName"
    /\ pc = "ret"
    /\ ret' = AssetResult(err, target.findings)
    /\ epc' = "done"
    /\ pc' = "idle"
    /\ UNCHANGED <<op, assetName, earlierRetries, ctxDone, findings, fetches, pagesArrived>>
    /\ UNCHANGED <<i, attempt, reqBodyBytes, reqBody, res, success, waitTime, err, target,
                   authCalls, rngSeedWrites>>
    /\ UNCHANGED hvars

\* GetFindingsByAssetName up to its first performCallAndReadResponse (lines 360-414).
GetFindings_Call ==
    \E name \in AssetNames :
        name = assetName /\ CallWith("GetFindingsByAssetName", FilterPayload(name))

\* A failure that hands back the findings gathered so far.
GetFindings_PageFailed_Partial ==
    /\ epc = "call"
    /\ op = "GetFindingsByAssetName"
    /\ pc = "ret"
    /\ err # NoError
    /\ ret' = [result |-> findings, err |-> err]
    /\ epc' = "done"
    /\ pc' = "idle"
    /\ UNCHANGED <<op, assetName, earlierRetries, ctxDone, findings, fetches, pagesArrived>>
    /\ UNCHANGED <<i, attempt, reqBodyBytes, reqBody, res, success, waitTime, err, target,
                   authCalls, rngSeedWrites>>
    /\ UNCHANGED hvars

\* if err != nil { return nil, err }, after the first page or a later one
\* (lines 415-417, 439-441).
GetFindings_PageFailed ==
    /\ epc = "call"
    /\ op = "GetFindingsByAssetName"
    /\ pc = "ret"
    /\ err # NoError
    /\ ret' = [result |-> NilSlice, err |-> err]
    /\ epc' = "done"
    /\ pc' = "idle"
    /\ UNCHANGED <<op, assetName, earlierRetries, ctxDone, findings, fetches, pagesArrived>>
    /\ UNCHANGED <<i, attempt, reqBodyBytes, reqBody, res, success, waitTime, err, target,
                   authCalls, rngSeedWrites>>
    /\ UNCHANGED hvars

\* A loop that gives up after a fixed number of pages.
GetFindings_NextPage_Bounded ==
    /\ epc = "call"
    /\ op = "GetFindingsByAssetName"
    /\ pc = "ret"
    /\ err = NoError
    /\ target.next # NoCursor
    /\ fetches < MaxPages - 1
    /\ findings' = AppendAll(findings, target.findings)
    /\ pagesArrived' = Append(pagesArrived, [findings |-> res.body.findings, next |-> res.body.next])
    /\ fetches' = fetches + 1
    /\ earlierRetries' = (earlierRetries \/ nFail > 0)
    /\ EnterPerformCall(JsonNext(target.next))
    /\ UNCHANGED <<op, assetName, epc, ctxDone, ret>>

\* A page arrived and names a next page (lines 419-438, 443-445): its findings
\* are appended and the next page is asked for with {"next":"<cursor>"}.
GetFindings_NextPage ==
    /\ epc = "call"
    /\ op = "GetFindingsByAssetName"
    /\ pc = "ret"
    /\ err = NoError
    /\ target.next # NoCursor
    /\ findings' = AppendAll(findings, target.findings)
    /\ pagesArrived' = Append(pagesArrived, [findings |-> res.body.findings, next |-> res.body.next])
    /\ fetches' = fetches + 1
    /\ earlierRetries' = (earlierRetries \/ nFail > 0)
    /\ EnterPerformCall(JsonNext(target.next))
    /\ UNCHANGED <<op, assetName, epc, ctxDone, ret>>

\* A page arrived and names no next page (lines 419-423, 443-447): its findings
\* are appended and the findings are returned.
GetFindings_Return ==
    /\ epc = "call"
    /\ op = "GetFindingsByAssetName"
    /\ pc = "ret"
    /\ err = NoError
    /\ target.next = NoCursor
    /\ findings' = AppendAll(findings, target.findings)
    /\ pagesArrived' = Append(pagesArrived, [findings |-> res.body.findings, next |-> res.body.next])
    /\ ret' = [result |-> AppendAll(findings, target.findings), err |-> NoError]
    /\ epc' = "done"
    /\ pc' = "idle"
    /\ UNCHANGED <<op, assetName, earlierRetries, ctxDone, fetches>>
    /\ UNCHANGED <<i, attempt, reqBodyBytes, reqBody, res, success, waitTime, err, target,
                   authCalls, rngSeedWrites>>
    /\ UNCHANGED hvars

Next ==
    \/ StopScanContext_Call
    \/ StopScanContext_Return
    \/ GetScansContext_Call
    \/ GetScansContext_Return
    \/ CreateScanContext_Call
    \/ CreateScanContext_Return
    \/ GetScanTemplatesContext_Call
    \/ GetScanTemplatesContext_Return
    \/ GetAssetByName_Call
    \/ GetAssetByName_Return
    \/ GetFindings_Call
    \/ GetFindings_PageFailed
    \/ GetFindings_NextPage
    \/ GetFindings_Return
    \/ DoFails
    \/ DoRetryable
    \/ DoSucceeds
    \/ SleepReturns
    \/ Cancel

Spec == Init /\ [][Next]_vars

(***************************************************************************)
(* Properties.                                                             *)
(***************************************************************************)
\* The current performCallAndReadResponse has returned.
Returned == pc \in {"ret", "idle"} /\ epc # "init"

\* C1: in a call whose first k-1 responses have a status >= 300 and whose k-th
\* has a status < 300 (k in 1..10), with a body that decodes when a target was
\* supplied, exactly k requests are sent, the call returns no error and the
\* target holds the decoded body of the k-th response; no request follows the
\* response with status < 300.
C1_SuccessAfterRetries ==
    /\ nOk <= 1
    /\ nOk = 1 => Returned
    /\ (Returned /\ nOk = 1 /\ (HasTarget(op) => res.body.valid)) =>
          /\ nErr = 0
          /\ sends = nFail + 1
          /\ sends = i + 1
          /\ sends <= 10
          /\ err = NoError
          /\ res.status < 300
          /\ HasTarget(op) =>
                target = [val |-> res.body.val, findings |-> res.body.findings,
                          next |-> res.body.next]

\* C1 witness: the tenth attempt of a call is the first to succeed, and its
\* body was decoded into the target.
C1_Witness ==
    /\ pc = "ret"
    /\ nFail = 9
    /\ nOk = 1
    /\ sends = 10
    /\ err = NoError
    /\ op = "GetScansContext"
    /\ target.val = "v2"

\* C2: a call in which 10 attempts each return a status >= 300 returns the
\* "Retry limit exceeded" error after exactly 10 requests, and that error is
\* returned in no other case; an 11th request is never sent.
C2_RetryLimit ==
    /\ sends <= 10
    /\ (Returned /\ nFail = 10) =>
          /\ err = <<"Retry limit exceeded">>
          /\ sends = 10
          /\ nOk = 0
    /\ (err = <<"Retry limit exceeded">>) => (Returned /\ nFail = 10 /\ sends = 10)

\* C2 witness: ten responses, the last of them a 429, and the error returned.
C2_Witness ==
    /\ pc = "ret"
    /\ nFail = 10
    /\ sends = 10
    /\ res.status = 429
    /\ err = <<"Retry limit exceeded">>

\* C3: for a request that carries a body, the body bytes the transport is
\* handed on every attempt of a call are the bytes captured before the loop.
C3_BodyIdenticalOnEveryAttempt ==
    (HasBody(op) /\ epc = "call" /\ sends >= 1) => presented = reqBodyBytes

\* C4: a Do that returns an error ends the call at once with the "Failed
\* call: ..." error: no request and no sleep follows it, so every sleep of the
\* call belongs to an earlier response; a failure of the first attempt leaves
\* one send and no sleep.
C4_TransportFailureIsFinal ==
    nErr >= 1 =>
        /\ Returned
        /\ nErr = 1
        /\ Len(err) = 2
        /\ err[1] = "Failed call: "
        /\ nOk = 0
        /\ sends = nFail + 1
        /\ sleeps = nFail
        /\ nFail = 0 => (sends = 1 /\ sleeps = 0)

\* C4 witness: the fourth attempt fails in the transport, after three retries.
C4_Witness ==
    /\ pc = "ret"
    /\ nErr = 1
    /\ nFail = 3
    /\ sends = 4
    /\ sleeps = 3
    /\ err = <<"Failed call: ", "connection refused">>

\* The retry-after values of the model that are an integer, with that integer.
HeaderSeconds(h) ==
    CASE h = <<"2">> -> 2
      [] h = <<"1", "2">> -> 12
      [] h = <<"-", "2">> -> 0 - 2
      [] h = <<"+", "2">> -> 2
      [] OTHER -> 0
IntegerHeaders == { <<"2">>, <<"1", "2">>, <<"-", "2">>, <<"+", "2">> }

\* C5: after a 429 whose retry-after header is an integer n, the wait before
\* the next attempt, the duration handed to time.Sleep, is n seconds, whatever
\* the backoff would have given (time.Sleep returns at once for a negative n).
C5_RetryAfterHonoured ==
    (pc = "sleep" /\ res.status = 429 /\ res.header \in IntegerHeaders) =>
        waitTime = HeaderSeconds(res.header) * 1000

\* C5 witness: a 429 with retry-after: 12 on the sixth attempt; the call waits
\* 12 s, which no backoff duration of that attempt is.
C5_Witness ==
    /\ pc = "sleep"
    /\ res.status = 429
    /\ res.header = <<"1", "2">>
    /\ i = 5
    /\ attempt = 6
    /\ waitTime = 12000
    /\ \A r \in 0..(JitterSteps - 1) : ForAttempt(i, r) # waitTime

\* C6: after a 429 without a retry-after header the wait is a duration of the
\* backoff for the attempt count, which is the loop counter, and it is neither
\* below 100 ms nor above 60 s nor above 100 ms * 1.5^attempt.
C6_BackoffWithinBounds ==
    (pc = "sleep" /\ res.status = 429 /\ res.header = <<>>) =>
        /\ attempt = i + 1
        /\ i \in 0..9
        /\ \E r \in 0..(JitterSteps - 1) : waitTime = ForAttempt(i, r)
        /\ waitTime >= 100
        /\ waitTime <= 60000
        /\ waitTime * Pow(2, i) <= 100 * Pow(3, i)

\* C6 witness: a 429 without the header on the tenth attempt, and a wait above
\* the minimum.
C6_Witness ==
    /\ pc = "sleep"
    /\ res.status = 429
    /\ res.header = <<>>
    /\ i = 9
    /\ waitTime > 100

\* C7: a response with status < 300 whose body does not decode into the
\* supplied target ends the call with the "Failed to read the response: ..."
\* error, which is neither the retry-limit nor the transport error, and no
\* request follows.
C7_DecodeFailure ==
    (nOk >= 1 /\ HasTarget(op) /\ ~res.body.valid) =>
        /\ Returned
        /\ Len(err) = 2
        /\ err[1] = "Failed to read the response: "
        /\ err # <<"Retry limit exceeded">>
        /\ err[1] # "Failed call: "
        /\ sends = nFail + 1
        /\ epc = "done" =>
              /\ ret.result = NilSlice
              /\ Len(ret.err) >= 2
              /\ SubSeq(ret.err, Len(ret.err) - 1, Len(ret.err)) = err

\* C7 witness: after two retries a 200 arrives whose body is no JSON.
C7_Witness ==
    /\ pc = "ret"
    /\ nFail = 2
    /\ nOk = 1
    /\ res.status = 200
    /\ HasTarget(op)
    /\ ~res.body.valid
    /\ err[1] = "Failed to read the response: "

\* C8: when the context is cancelled while the call sleeps between attempts,
\* no further request is sent and the call ends with an error of its own for
\* the cancellation, which is neither the retry-limit, nor the transport, nor
\* the decode error.
C8_CancelDuringSleep ==
    (cancelledInSleep /\ Returned) =>
        /\ sendsAfterCancel = 0
        /\ err # NoError
        /\ err # <<"Retry limit exceeded">>
        /\ err[1] # "Failed call: "
        /\ err[1] # "Failed to read the response: "

RECURSIVE Concat(_)
\* The findings of a sequence of pages, one page after the other.
Concat(pages) ==
    IF pages = <<>> THEN <<>> ELSE Head(pages).findings \o Concat(Tail(pages))

\* C9: when pages P1..Pn arrive, all but the last with a cursor and the last
\* without, GetFindingsByAssetName returns their findings concatenated in the
\* order of arrival and has made exactly n page fetches; it never asks for a
\* page after one without a cursor.
C9_PagesConcatenated ==
    op = "GetFindingsByAssetName" =>
        /\ \A k \in 1..(Len(pagesArrived) - 1) : pagesArrived[k].next # <<>>
        /\ (epc = "done" /\ ret.err = <<>>) =>
              /\ pagesArrived # <<>>
              /\ pagesArrived[Len(pagesArrived)].next = <<>>
              /\ ret.result.items = Concat(pagesArrived)
              /\ fetches = Len(pagesArrived)
        /\ (pagesArrived # <<>> /\ pagesArrived[Len(pagesArrived)].next = <<>>) =>
              (epc = "done" /\ fetches = Len(pagesArrived))

\* C9 witness: two pages, [A,B] with a cursor and [A] without, and [A,B,A]
\* returned after two fetches.
C9_Witness ==
    /\ op = "GetFindingsByAssetName"
    /\ epc = "done"
    /\ ret.err = <<>>
    /\ Len(pagesArrived) = 2
    /\ pagesArrived[1].findings = <<"A", "B">>
    /\ pagesArrived[2].findings = <<"A">>
    /\ ret.result.items = <<"A", "B", "A">>
    /\ fetches = 2

\* C10: when a page fetch of GetFindingsByAssetName fails, the first or a later
\* one, the method returns the error of that fetch and a nil list of findings.
C10_NoPartialFindings ==
    (op = "GetFindingsByAssetName" /\ epc = "done" /\ err # <<>>) =>
        /\ ret.err = err
        /\ ret.result = [isNil |-> TRUE, items |-> <<>>]

\* C10 witness: the second page fails with the retry limit after the first
\* page's findings were gathered.
C10_Witness ==
    /\ op = "GetFindingsByAssetName"
    /\ epc = "done"
    /\ fetches = 2
    /\ findings.items = <<"A", "B">>
    /\ ret.err = <<"Retry limit exceeded">>
    /\ ret.result.isNil

C12_BodyClosedOnce ==
    (Returned /\ res.status # 0) => res.closes = 1

\* C13: an endpoint method never partially succeeds: when its
\* performCallAndReadResponse ended in a transport, retry-limit or decode
\* error the method returns a non-nil error and a nil result, and it returns
\* a non-nil result only together with a nil error.
C13_NoPartialSuccess ==
    epc = "done" =>
        /\ err # NoError => (ret.err # NoError /\ ret.result = NilSlice)
        /\ ret.result # NilSlice => ret.err = NoError

\* C13 witness: CreateScanContext has returned a nil result and the decode
\* error, after one retry and a 200 whose body did not decode.
C13_Witness ==
    /\ epc = "done"
    /\ op = "CreateScanContext"
    /\ err = ErrDecode
    /\ nFail = 1
    /\ ret = [result |-> NilSlice, err |-> ErrDecode]

\* C14: GetAssetByName returns an asset with a nil error exactly when the
\* successful search response holds exactly one asset, and then that asset;
\* with no asset or more than one it returns a nil asset and a non-nil error.
C14_ExactlyOneAsset ==
    (op = "GetAssetByName" /\ epc = "done" /\ err = NoError) =>
        LET assets == res.body.findings IN
        /\ (ret.err = NoError /\ ret.result # NilSlice) <=> Len(assets) = 1
        /\ Len(assets) = 1 => ret = [result |-> Slice(<<assets[1]>>), err |-> NoError]
        /\ Len(assets) # 1 => (ret.result = NilSlice /\ ret.err # NoError)

\* C14 witness: after one retry the search answered with the one asset a2,
\* and GetAssetByName has returned it.
C14_Witness ==
    /\ op = "GetAssetByName"
    /\ epc = "done"
    /\ nFail = 1
    /\ res.body.valid
    /\ res.body.findings = <<"a2">>
    /\ ret = [result |-> Slice(<<"a2">>), err |-> NoError]

\* C15 (as claimed): calls share no mutable state but the transport; in
\* particular no call writes process-wide state.
C15_NoProcessWideWrite == rngSeedWrites = 0

\* C16: within one call the attempts are strictly sequential: a request is
\* sent only when every earlier request of the call has been answered with a
\* status >= 300 (and its body closed) and the sleep entered after each of
\* them has returned, so no two requests of a call are in flight together.
C16_AttemptsSequential ==
    [][sends' = sends + 1 =>
          /\ pc = "send"
          /\ nFail = sends /\ nOk = 0 /\ nErr = 0
          /\ sleeps = sends
          /\ i = sends
          /\ sends > 0 => (res.status >= FirstNonSuccess /\ res.closes = 1)
          /\ pc' # "send"]_vars

\* C16 witness: the third request has been answered, after two sleeps that
\* returned; the third sleep is running.
C16_Witness ==
    /\ pc = "sleep"
    /\ sends = 3
    /\ sleeps = 3
    /\ i = 2
    /\ waitTime > 0

\* A string as the characters of its JSON string literal, without the quotes.
RECURSIVE JsonEscaped(_)
JsonEscaped(str) ==
    IF str = <<>> THEN <<>>
    ELSE (IF Head(str) \in {"\"", "\\"} THEN <<"\\", Head(str)>> ELSE <<Head(str)>>)
         \o JsonEscaped(Tail(str))

\* The JSON object whose single field next is the string n.
JsonObjectNext(n) == <<"{", "\"", "next", "\"", ":", "\"">> \o JsonEscaped(n) \o <<"\"", "}">>

\* C17 (as claimed): every request for the first page of
\* GetFindingsByAssetName carries the filter payload, and every request for a
\* later page carries exactly the JSON object whose one field next is the
\* cursor of the page before it, which has been decoded by then.
C17_PageRequestBodies ==
    (op = "GetFindingsByAssetName" /\ epc = "call" /\ sends >= 1) =>
        /\ Len(pagesArrived) = fetches - 1
        /\ presented = IF fetches = 1
                       THEN FilterPayload(assetName)
                       ELSE JsonObjectNext(pagesArrived[fetches - 1].next)

C19_FreshExecutorPerPage ==
    (op = "GetFindingsByAssetName" /\ epc = "call") =>
        /\ attempt = nFail
        /\ pc = "send" => (i = nFail /\ nFail < MaxAttempts)
        /\ pc = "sleep" =>
              \E r \in 0..(JitterSteps - 1) :
                  waitTime = WaitFor(res.status, res.header, ForAttempt(nFail - 1, r))
        /\ err = ErrRetryLimit <=> (pc = "ret" /\ nFail = MaxAttempts)

\* C19 witness: the first page took retries, and the second page has used up
\* its own ten attempts.
C19_Witness ==
    /\ op = "GetFindingsByAssetName"
    /\ epc = "call"
    /\ fetches = 2
    /\ earlierRetries
    /\ pc = "ret"
    /\ nFail = MaxAttempts
    /\ err = ErrRetryLimit

\* The retry-after values of the model that are present and no integer.
NonIntegerHeaders == { <<"x">>, <<"2", "x">>, <<"-">> }

\* C20: a 429 whose retry-after header is no integer does not fail the call:
\* the call sleeps for the backoff duration of the attempt and goes on; and
\* after a status >= 300 other than 429 the wait is the backoff duration of
\* the attempt whatever the retry-after header of the response.
C20_FallsBackToBackoff ==
    (/\ pc = "sleep"
     /\ \/ res.status = StatusTooManyRequests /\ res.header \in NonIntegerHeaders
        \/ res.status >= FirstNonSuccess /\ res.status # StatusTooManyRequests) =>
        /\ err = NoError
        /\ ENABLED SleepReturns
        /\ \E r \in 0..(JitterSteps - 1) : waitTime = ForAttempt(i, r)
        /\ waitTime >= 100
        /\ waitTime * Pow(2, i) <= 100 * Pow(3, i)

\* C20 witness: a 429 with retry-after: 2x on the fourth attempt; the call
\* sleeps for a backoff duration above the minimum.
C20_Witness ==
    /\ pc = "sleep"
    /\ res.status = StatusTooManyRequests
    /\ res.header = <<"2", "x">>
    /\ i = 3
    /\ err = NoError
    /\ waitTime > 100
    /\ waitTime # 2000

\* The wait after the last response was taken from its retry-after header.
RetryAfterGoverned(r) == r.status = StatusTooManyRequests /\ r.header \in IntegerHeaders

\* C21: the Backoff is advanced once for every response with status >= 300,
\* those whose wait is taken from retry-after included: after j such
\* responses of the call its attempt counter is j; and when a wait taken from
\* retry-after is followed by a failed attempt whose wait is the backoff's,
\* that wait is the duration for the number of failed attempts before it,
\* the retry-after ones counted.
C21_BackoffAdvancedPerFailure ==
    [][/\ epc' # "init" => attempt' = nFail'
       /\ (/\ pc = "send" /\ pc' = "sleep"
           /\ RetryAfterGoverned(res)
           /\ ~RetryAfterGoverned(res')) =>
              /\ nFail >= 1
              /\ waitTime = HeaderSeconds(res.header) * Second
              /\ \E r \in 0..(JitterSteps - 1) : waitTime' = ForAttempt(nFail, r)]_vars

\* C21 witness: the third failed attempt was a 429 with retry-after: 2; the
\* call has waited those 2 s, its Backoff stands at 3, and the fourth attempt
\* is about to be made.
C21_Witness ==
    /\ pc = "send"
    /\ RetryAfterGoverned(res)
    /\ res.header = <<"2">>
    /\ waitTime = 2 * Second
    /\ nFail = 3
    /\ attempt = 3
    /\ \A r \in 0..(JitterSteps - 1) : ForAttempt(2, r) # waitTime

\* C22: a wait follows every failed attempt, the last one included: the call
\* has entered time.Sleep once for every response with status >= 300; while
\* it sleeps after the 10th such response nothing has been returned yet; and
\* "Retry limit exceeded" is returned only when 10 waits were made and all of
\* them have ended, with no request sent after the 10th.
C22_WaitAfterLastAttempt ==
    /\ sleeps = nFail
    /\ (pc = "sleep" /\ nFail = MaxAttempts) =>
          (err = NoError /\ i = MaxAttempts - 1 /\ sends = MaxAttempts)
    /\ err = ErrRetryLimit =>
          /\ sleeps = MaxAttempts
          /\ i = MaxAttempts
          /\ sends = MaxAttempts
          /\ pc # "sleep"

\* C22 witness: ten responses with status >= 300, the last a 500 followed by a
\* wait above the minimum, ten waits begun and ended, ten requests sent, and
\* the error returned.
C22_Witness ==
    /\ pc = "ret"
    /\ err = ErrRetryLimit
    /\ res.status = 500
    /\ waitTime > BackoffMin
    /\ sleeps = MaxAttempts
    /\ i = MaxAttempts
    /\ sends = MaxAttempts

====
